---- MODULE Spec2Model ----
(***************************************************************************)
(* Model of the dbghelp backtrace strategy (src/backtrace/dbghelp.rs):     *)
(* trace(), suspend_thread_and_capture_context(), init_frame() and the     *)
(* Frame accessors, together with the Windows collaborators they call      *)
(* (SuspendThread, GetThreadContext, ResumeThread, RtlCaptureContext,      *)
(* StackWalkEx / StackWalk64, RtlLookupFunctionEntry).                     *)
(*                                                                         *)
(* Every OS thread of the process may call trace(); a thread whose OS      *)
(* suspend count is positive takes no step.                                *)
(***************************************************************************)
EXTENDS Integers, Sequences, FiniteSets, TLC

\* Deepest call stack a thread can have (frames the OS walker can produce).
MaxDepth == 3

\* The OS threads of the process.
Threads == {"t1", "t2"}

VARIABLES
  arch,            \* the target_arch the crate is compiled for
  hasStackWalkEx,  \* whether the loaded dbghelp.dll exports StackWalkEx
  lock,            \* holder of the dbghelp lock taken by dbghelp::init()
  suspendCount,    \* OS suspend count of every thread
  pc,              \* where each thread stands in trace()
  thread,          \* trace's `thread` argument
  frame,           \* trace's `frame` local
  context,         \* the captured CONTEXT (`context.0`)
  image,           \* trace's `image` local
  strategy,        \* the arm of the match on StackWalkEx() trace runs in
  do_resume,       \* trace's `do_resume` local
  capture,         \* what suspend_thread_and_capture_context returned
  walkPos,         \* frames the OS walker has unwound in this trace
  log,             \* the OS calls and callback invocations of this trace, in order
  delivered,       \* the frames the callback has received in this trace
  preCount,        \* suspend count of the target when trace began its work
  heapLock,        \* holder of the process heap lock
  cbAllocates      \* whether the callback given to trace allocates

vars == <<arch, hasStackWalkEx, lock, suspendCount, pc, thread, frame, context,
          image, strategy, do_resume, capture, walkPos, log, delivered, preCount,
          heapLock, cbAllocates>>

\* ------------------------------------------------------------------------
\* Thread identities (the `thread: *mut c_void` argument of trace)
\* ------------------------------------------------------------------------

\* GetCurrentThread() returns one constant pseudo handle, whoever calls it.
GetCurrentThread == "pseudo"

\* thread.is_null()
NullHandle == "null"

\* A value that is neither null, nor the pseudo handle, nor a handle of a
\* thread of the process (INVALID_HANDLE_VALUE, a closed handle).
InvalidHandle == "invalid"

\* A real handle of thread u is written u itself.
Handles == Threads \cup {GetCurrentThread, NullHandle, InvalidHandle}

\* The thread a handle denotes to the OS when `caller` uses it.
Denotes(h, caller) ==
  IF h \in Threads THEN h
  ELSE IF h = GetCurrentThread THEN caller
  ELSE "nobody"

\* ------------------------------------------------------------------------
\* Frame: StackFrame::{New(STACKFRAME_EX), Old(STACKFRAME64)} + base_address
\* ------------------------------------------------------------------------

\* mem::zeroed() of an ADDRESS64: Offset 0, Mode 0 (AddrMode1616)
ZeroAddress == [Offset |-> 0, Mode |-> "AddrMode1616"]

AddrModeFlat == "AddrModeFlat"

\* Frame { stack_frame: StackFrame::New(inner), base_address: 0 } with
\* inner zeroed and inner.StackFrameSize = size_of::<STACKFRAME_EX>()
NewFrame ==
  [stack_frame |-> [tag |-> "New", AddrPC |-> ZeroAddress,
                    AddrFrame |-> ZeroAddress, AddrStack |-> ZeroAddress,
                    StackFrameSize |-> "size_of_STACKFRAME_EX"],
   base_address |-> 0]

\* Frame { stack_frame: StackFrame::Old(mem::zeroed()), base_address: 0 }
OldFrame ==
  [stack_frame |-> [tag |-> "Old", AddrPC |-> ZeroAddress,
                    AddrFrame |-> ZeroAddress, AddrStack |-> ZeroAddress,
                    StackFrameSize |-> "absent"],
   base_address |-> 0]

\* The value of the `frame` local before trace has built it.
NoFrame ==
  [stack_frame |-> [tag |-> "unset", AddrPC |-> ZeroAddress,
                    AddrFrame |-> ZeroAddress, AddrStack |-> ZeroAddress,
                    StackFrameSize |-> "absent"],
   base_address |-> 0]

\* An addr_pc whose Old arm picks the wrong field.
addr_pc_OldArmFrame(f) ==
  CASE f.stack_frame.tag = "New" -> f.stack_frame.AddrPC
    [] f.stack_frame.tag = "Old" -> f.stack_frame.AddrFrame
    [] OTHER -> ZeroAddress

\* Frame::addr_pc / addr_stack: the match on the variant selects the same
\* named field of either payload.
addr_pc(f) ==
  CASE f.stack_frame.tag = "New" -> f.stack_frame.AddrPC
    [] f.stack_frame.tag = "Old" -> f.stack_frame.AddrPC
    [] OTHER -> ZeroAddress

\* Frame::addr_stack
addr_stack(f) ==
  CASE f.stack_frame.tag = "New" -> f.stack_frame.AddrStack
    [] f.stack_frame.tag = "Old" -> f.stack_frame.AddrStack
    [] OTHER -> ZeroAddress

\* Frame::ip, sp, symbol_address, module_base_address
ip(f) == addr_pc(f).Offset
sp(f) == addr_stack(f).Offset
symbol_address(f) == ip(f)
module_base_address(f) == [some |-> TRUE, value |-> f.base_address]

\* ------------------------------------------------------------------------
\* Architectures, CONTEXT and init_frame
\* ------------------------------------------------------------------------
Archs == {"x86_64", "x86", "aarch64", "arm"}

\* The registers of CONTEXT the model keeps for each architecture: the three
\* that init_frame reads and one general-purpose register it does not.
IpRegister(a) ==
  CASE a = "x86_64" -> "Rip" [] a = "x86" -> "Eip"
    [] a = "aarch64" -> "Pc" [] a = "arm" -> "Pc"
SpRegister(a) ==
  CASE a = "x86_64" -> "Rsp" [] a = "x86" -> "Esp"
    [] a = "aarch64" -> "Sp" [] a = "arm" -> "Sp"
FpRegister(a) ==
  CASE a = "x86_64" -> "Rbp" [] a = "x86" -> "Ebp"
    [] a = "aarch64" -> "Fp" [] a = "arm" -> "R11"
GpRegister(a) ==
  CASE a = "x86_64" -> "Rax" [] a = "x86" -> "Eax"
    [] a = "aarch64" -> "X0" [] a = "arm" -> "R0"

ContextFields(a) ==
  {"ContextFlags", IpRegister(a), SpRegister(a), FpRegister(a), GpRegister(a)}

\* mem::zeroed::<MyContext>()
ZeroContext == [r \in ContextFields(arch) |-> 0]

\* The machine type init_frame returns.
MachineType(a) ==
  CASE a = "x86_64" -> "IMAGE_FILE_MACHINE_AMD64"
    [] a = "x86" -> "IMAGE_FILE_MACHINE_I386"
    [] a = "aarch64" -> "IMAGE_FILE_MACHINE_ARM64"
    [] a = "arm" -> "IMAGE_FILE_MACHINE_ARMNT"

\* An init_frame that builds its result on a fresh legacy frame.
init_frame_Rebuild(f, ctx) ==
  [OldFrame EXCEPT
     !.stack_frame.AddrPC = [Offset |-> ctx[IpRegister(arch)], Mode |-> AddrModeFlat],
     !.stack_frame.AddrStack = [Offset |-> ctx[SpRegister(arch)], Mode |-> AddrModeFlat],
     !.stack_frame.AddrFrame = [Offset |-> ctx[FpRegister(arch)], Mode |-> AddrModeFlat]]

\* An init_frame that takes the frame pointer from the stack-pointer register
\* and leaves its mode as it was.
init_frame_FrameFromSp(f, ctx) ==
  [f EXCEPT
     !.stack_frame.AddrPC = [Offset |-> ctx[IpRegister(arch)], Mode |-> AddrModeFlat],
     !.stack_frame.AddrStack = [Offset |-> ctx[SpRegister(arch)], Mode |-> AddrModeFlat],
     !.stack_frame.AddrFrame.Offset = ctx[SpRegister(arch)]]

\* init_frame(frame, ctx), one variant per target_arch: the three
\* addr_*_mut().Offset / .Mode stores.  The variant tag, StackFrameSize and
\* base_address are not written.
init_frame(f, ctx) ==
  [f EXCEPT
     !.stack_frame.AddrPC = [Offset |-> ctx[IpRegister(arch)], Mode |-> AddrModeFlat],
     !.stack_frame.AddrStack = [Offset |-> ctx[SpRegister(arch)], Mode |-> AddrModeFlat],
     !.stack_frame.AddrFrame = [Offset |-> ctx[FpRegister(arch)], Mode |-> AddrModeFlat]]

\* The WORD init_frame returns.
init_frame_image == MachineType(arch)
\* ------------------------------------------------------------------------
\* The operating system: thread stacks, contexts, the stack walker
\* ------------------------------------------------------------------------
ThreadNumber(u) == IF u = "t1" THEN 1 ELSE 2

\* The call stack of thread u, innermost frame first: the (pc, sp, fp) of
\* each level.  Distinct levels and distinct threads have distinct values.
ThreadStack(u) ==
  [i \in 1..MaxDepth |->
     [pc |-> 256 * ThreadNumber(u) + 24 * i,
      sp |-> 4096 * ThreadNumber(u) + 32 * i,
      fp |-> 4096 * ThreadNumber(u) + 32 * i + 16]]

\* The register context of thread u: the registers of its innermost frame.
ThreadContext(u, flags) ==
  [r \in ContextFields(arch) |->
     CASE r = "ContextFlags" -> flags
       [] r = IpRegister(arch) -> ThreadStack(u)[1].pc
       [] r = SpRegister(arch) -> ThreadStack(u)[1].sp
       [] r = FpRegister(arch) -> ThreadStack(u)[1].fp
       [] OTHER -> 64 + ThreadNumber(u)]

\* The thread whose stack a captured context belongs to: the one whose
\* stack pointer it holds.
ContextOwner(ctx) ==
  CHOOSE u \in Threads : ctx[SpRegister(arch)] = ThreadStack(u)[1].sp

\* A successful StackWalkEx / StackWalk64 step: the walker stores the next
\* level's addresses into the STACKFRAME payload and keeps everything else.
StackWalkStep(f, level) ==
  [f EXCEPT !.stack_frame.AddrPC.Offset = level.pc,
            !.stack_frame.AddrStack.Offset = level.sp,
            !.stack_frame.AddrFrame.Offset = level.fp]

\* get_module_base(process, addr): RtlLookupFunctionEntry's image base (or
\* SymGetModuleBase64); modules are 64-byte aligned images in the model.
get_module_base(addr) == (addr \div 64) * 64

\* ------------------------------------------------------------------------
\* The log of one trace call
\* ------------------------------------------------------------------------
Ev(op, ok, site) == [op |-> op, ok |-> ok, site |-> site]

Logged(t, e) == log' = [log EXCEPT ![t] = Append(@, e)]

\* Positions of a log l holding an event of operation op (with result ok)
PosOf(l, op) == {i \in 1..Len(l) : l[i].op = op}
PosOfOk(l, op, ok) == {i \in PosOf(l, op) : l[i].ok = ok}
Count(l, op) == Cardinality(PosOf(l, op))
CountOk(l, op, ok) == Cardinality(PosOfOk(l, op, ok))

\* The same, in the log of the current trace of thread t
At(t, op) == PosOf(log[t], op)
AtOk(t, op, ok) == PosOfOk(log[t], op, ok)
Walks(t) == At(t, "StackWalkEx") \cup At(t, "StackWalk64")
WalksOk(t, ok) == {i \in Walks(t) : log[t][i].ok = ok}
Callbacks(t) == At(t, "cb")
Lookups(t) == At(t, "get_module_base")
Resumes(t) == At(t, "ResumeThread")
ResumesBy(t, site) == {i \in Resumes(t) : log[t][i].site = site}

\* ------------------------------------------------------------------------
\* Initial state
\* ------------------------------------------------------------------------
Init ==
  /\ arch \in Archs
  /\ hasStackWalkEx \in BOOLEAN
  /\ lock = "free"
  /\ suspendCount = [t \in Threads |-> 0]
  /\ pc = [t \in Threads |-> "idle"]
  /\ thread = [t \in Threads |-> NullHandle]
  /\ frame = [t \in Threads |-> NoFrame]
  /\ context = [t \in Threads |-> ZeroContext]
  /\ image = [t \in Threads |-> "unset"]
  /\ strategy = [t \in Threads |-> "unset"]
  /\ do_resume = [t \in Threads |-> FALSE]
  /\ capture = [t \in Threads |-> "pending"]
  /\ walkPos = [t \in Threads |-> 0]
  /\ log = [t \in Threads |-> <<>>]
  /\ delivered = [t \in Threads |-> <<>>]
  /\ preCount = [t \in Threads |-> 0]
  /\ heapLock = "free"
  /\ cbAllocates = [t \in Threads |-> FALSE]

\* A thread runs only while the OS does not hold it suspended.
Runnable(t) == suspendCount[t] = 0

\* SuspendThread / ResumeThread on a handle that denotes a thread
SuspendThread(h) == [suspendCount EXCEPT ![h] = @ + 1]
ResumeThread(h) ==
  IF h \in Threads
  THEN [suspendCount EXCEPT ![h] = IF @ > 0 THEN @ - 1 ELSE 0]
  ELSE suspendCount

\* An init that never waits for the lock.
LockAvailable_Always == TRUE

\* dbghelp::init() takes the process-wide dbghelp lock before anything else
\* and waits while another thread holds it.
LockAvailable == lock = "free"

\* The Ok value of dbghelp::init() keeps the lock held.
LockHeldBy(t) == t

\* Dropping the `dbghelp` value (or init failing) releases the lock.
LockAfterDrop(t) == IF lock = t THEN "free" ELSE lock

\* Returning from trace drops its locals, the `dbghelp` guard among them.
Return(t) ==
  /\ pc' = [pc EXCEPT ![t] = "done"]
  /\ lock' = LockAfterDrop(t)

\* ------------------------------------------------------------------------
\* trace(cb, thread)
\* ------------------------------------------------------------------------

\* A thread calls trace with some thread identity; the locals are fresh.
CallTrace(t, h) ==
  /\ Runnable(t)
  /\ pc[t] \in {"idle", "done"}
  /\ heapLock # t
  /\ \E a \in BOOLEAN : cbAllocates' = [cbAllocates EXCEPT ![t] = a]
  /\ pc' = [pc EXCEPT ![t] = "init"]
  /\ thread' = [thread EXCEPT ![t] = h]
  /\ frame' = [frame EXCEPT ![t] = NoFrame]
  /\ context' = [context EXCEPT ![t] = ZeroContext]
  /\ image' = [image EXCEPT ![t] = "unset"]
  /\ strategy' = [strategy EXCEPT ![t] = "unset"]
  /\ do_resume' = [do_resume EXCEPT ![t] = FALSE]
  /\ capture' = [capture EXCEPT ![t] = "pending"]
  /\ walkPos' = [walkPos EXCEPT ![t] = 0]
  /\ log' = [log EXCEPT ![t] = <<>>]
  /\ delivered' = [delivered EXCEPT ![t] = <<>>]
  /\ preCount' = [preCount EXCEPT ![t] = 0]
  /\ UNCHANGED <<arch, hasStackWalkEx, lock, suspendCount, heapLock>>

\* A trace that goes to the capture right after dbghelp::init(), before the
\* strategy is chosen.
InitOk_CaptureFirst(t) ==
  /\ Runnable(t)
  /\ pc[t] = "init"
  /\ LockAvailable
  /\ lock' = LockHeldBy(t)
  /\ pc' = [pc EXCEPT ![t] = "capture"]
  /\ Logged(t, Ev("dbghelp::init", TRUE, "trace"))
  /\ preCount' = [preCount EXCEPT ![t] =
                    IF thread[t] \in Threads THEN suspendCount[thread[t]] ELSE 0]
  /\ UNCHANGED <<arch, hasStackWalkEx, heapLock, cbAllocates,
                 suspendCount, thread, frame, context,
                 image, strategy, do_resume, capture, walkPos, delivered>>

\* A trace that does not keep the value of dbghelp::init() (`let _ = ...`):
\* the guard is dropped at once and the walk runs without the lock.
InitOk_GuardDropped(t) ==
  /\ Runnable(t)
  /\ pc[t] = "init"
  /\ LockAvailable
  /\ lock' = lock
  /\ pc' = [pc EXCEPT ![t] = "select"]
  /\ Logged(t, Ev("dbghelp::init", TRUE, "trace"))
  /\ preCount' = [preCount EXCEPT ![t] =
                    IF thread[t] \in Threads THEN suspendCount[thread[t]] ELSE 0]
  /\ UNCHANGED <<arch, hasStackWalkEx, heapLock, cbAllocates,
                 suspendCount, thread, frame, context,
                 image, strategy, do_resume, capture, walkPos, delivered>>

\* dbghelp::init() returns Ok: the caller now holds the dbghelp lock.
InitOk(t) ==
  /\ Runnable(t)
  /\ pc[t] = "init"
  /\ LockAvailable
  /\ lock' = LockHeldBy(t)
  /\ pc' = [pc EXCEPT ![t] = "select"]
  /\ Logged(t, Ev("dbghelp::init", TRUE, "trace"))
  /\ preCount' = [preCount EXCEPT ![t] =
                    IF thread[t] \in Threads THEN suspendCount[thread[t]] ELSE 0]
  /\ UNCHANGED <<arch, hasStackWalkEx, heapLock, cbAllocates,
                 suspendCount, thread, frame, context,
                 image, strategy, do_resume, capture, walkPos, delivered>>

\* A trace that goes on after dbghelp::init() returned Err(()).
InitErr_Continues(t) ==
  /\ Runnable(t)
  /\ pc[t] = "init"
  /\ LockAvailable
  /\ Logged(t, Ev("dbghelp::init", FALSE, "trace"))
  /\ pc' = [pc EXCEPT ![t] = "select"]
  /\ lock' = LockHeldBy(t)
  /\ preCount' = [preCount EXCEPT ![t] =
                    IF thread[t] \in Threads THEN suspendCount[thread[t]] ELSE 0]
  /\ UNCHANGED <<arch, hasStackWalkEx, heapLock, cbAllocates,
                 suspendCount, thread, frame, context,
                 image, strategy, do_resume, capture, walkPos, delivered>>

\* dbghelp::init() returns Err(()): trace returns at once.
InitErr(t) ==
  /\ Runnable(t)
  /\ pc[t] = "init"
  /\ LockAvailable
  /\ Logged(t, Ev("dbghelp::init", FALSE, "trace"))
  /\ Return(t)
  /\ preCount' = [preCount EXCEPT ![t] =
                    IF thread[t] \in Threads THEN suspendCount[thread[t]] ELSE 0]
  /\ UNCHANGED <<arch, hasStackWalkEx, heapLock, cbAllocates,
                 suspendCount, thread, frame, context,
                 image, strategy, do_resume, capture, walkPos, delivered>>

\* A match whose arms are swapped: the legacy walk when StackWalkEx exists.
SelectStrategy_Swapped(t) ==
  /\ Runnable(t)
  /\ pc[t] = "select"
  /\ strategy' = [strategy EXCEPT ![t] =
                    IF hasStackWalkEx THEN "StackWalk64" ELSE "StackWalkEx"]
  /\ frame' = [frame EXCEPT ![t] = IF hasStackWalkEx THEN OldFrame ELSE NewFrame]
  /\ pc' = [pc EXCEPT ![t] = "capture"]
  /\ Logged(t, Ev("select", hasStackWalkEx, "trace"))
  /\ UNCHANGED <<arch, hasStackWalkEx, heapLock, cbAllocates,
                 lock, suspendCount, thread, context,
                 image, do_resume, capture, walkPos, delivered, preCount>>

\* match (*dbghelp.dbghelp()).StackWalkEx(): Some builds a New frame, None
\* an Old one.
SelectStrategy(t) ==
  /\ Runnable(t)
  /\ pc[t] = "select"
  /\ strategy' = [strategy EXCEPT ![t] =
                    IF hasStackWalkEx THEN "StackWalkEx" ELSE "StackWalk64"]
  /\ frame' = [frame EXCEPT ![t] = IF hasStackWalkEx THEN NewFrame ELSE OldFrame]
  /\ pc' = [pc EXCEPT ![t] = "capture"]
  /\ Logged(t, Ev("select", hasStackWalkEx, "trace"))
  /\ UNCHANGED <<arch, hasStackWalkEx, heapLock, cbAllocates,
                 lock, suspendCount, thread, context,
                 image, do_resume, capture, walkPos, delivered, preCount>>
\* ------------------------------------------------------------------------
\* suspend_thread_and_capture_context(thread)
\* ------------------------------------------------------------------------

\* The test without its is_null() half.
IsCallingThread_NoNull(h) == h = GetCurrentThread

\* thread == GetCurrentThread() || thread.is_null()
IsCallingThread(h) == h = GetCurrentThread \/ h = NullHandle

\* The first arm: RtlCaptureContext on the calling thread, Some((context, false)).
CaptureCurrent(t) ==
  /\ Runnable(t)
  /\ pc[t] = "capture"
  /\ IsCallingThread(thread[t])
  /\ context' = [context EXCEPT ![t] = ThreadContext(t, 7)]
  /\ capture' = [capture EXCEPT ![t] = "Some"]
  /\ do_resume' = [do_resume EXCEPT ![t] = FALSE]
  /\ pc' = [pc EXCEPT ![t] = "initframe"]
  /\ Logged(t, Ev("RtlCaptureContext", TRUE, "capture"))
  /\ UNCHANGED <<arch, hasStackWalkEx, heapLock, cbAllocates,
                 lock, suspendCount, thread, frame,
                 image, strategy, walkPos, delivered, preCount>>

\* SuspendThread(thread) returned -1: return None, and trace returns.
SuspendFailed(t) ==
  /\ capture' = [capture EXCEPT ![t] = "None"]
  /\ Logged(t, Ev("SuspendThread", FALSE, "capture"))
  /\ Return(t)
  /\ UNCHANGED suspendCount

\* SuspendThread(thread) succeeded: the target's suspend count is one higher.
SuspendSucceeded(t) ==
  /\ suspendCount' = SuspendThread(thread[t])
  /\ Logged(t, Ev("SuspendThread", TRUE, "capture"))
  /\ pc' = [pc EXCEPT ![t] = "getcontext"]
  /\ UNCHANGED <<capture, lock>>

\* The second arm up to SuspendThread: ContextFlags is set, the thread is
\* suspended.  The OS refuses a handle that denotes no thread and may refuse
\* any other.
SuspendTarget(t) ==
  /\ Runnable(t)
  /\ pc[t] = "capture"
  /\ ~IsCallingThread(thread[t])
  /\ \E ok \in BOOLEAN :
       /\ ok => thread[t] \in Threads
       /\ IF ok THEN SuspendSucceeded(t) ELSE SuspendFailed(t)
  /\ context' = [context EXCEPT ![t]["ContextFlags"] = 3]
  /\ UNCHANGED <<arch, hasStackWalkEx, heapLock, cbAllocates,
                 thread, frame, image, strategy,
                 do_resume, walkPos, delivered, preCount>>
\* A failed GetThreadContext after which the capture still hands out its
\* (zeroed) context, to be resumed by the caller.
ContextReadFailed_Continues(t) ==
  /\ capture' = [capture EXCEPT ![t] = "Some"]
  /\ do_resume' = [do_resume EXCEPT ![t] = TRUE]
  /\ context' = [context EXCEPT ![t] = ThreadContext(thread[t], 3)]
  /\ Logged(t, Ev("GetThreadContext", FALSE, "capture"))
  /\ pc' = [pc EXCEPT ![t] = "initframe"]
  /\ UNCHANGED <<suspendCount, lock>>

\* GetThreadContext failed: ResumeThread(thread), return None, trace returns.
ContextReadFailed(t) ==
  /\ suspendCount' = ResumeThread(thread[t])
  /\ capture' = [capture EXCEPT ![t] = "None"]
  /\ log' = [log EXCEPT ![t] =
              @ \o <<Ev("GetThreadContext", FALSE, "capture"),
                     Ev("ResumeThread", TRUE, "capture")>>]
  /\ Return(t)
  /\ UNCHANGED <<context, do_resume>>

\* A capture that reads the calling thread's registers, not the target's.
ContextReadSucceeded_CallerContext(t) ==
  /\ context' = [context EXCEPT ![t] = ThreadContext(t, 3)]
  /\ capture' = [capture EXCEPT ![t] = "Some"]
  /\ do_resume' = [do_resume EXCEPT ![t] = TRUE]
  /\ Logged(t, Ev("GetThreadContext", TRUE, "capture"))
  /\ pc' = [pc EXCEPT ![t] = "initframe"]
  /\ UNCHANGED <<suspendCount, lock>>

\* A capture that resumes the thread as soon as its context is read.
ContextReadSucceeded_ResumeAtOnce(t) ==
  /\ context' = [context EXCEPT ![t] = ThreadContext(thread[t], 3)]
  /\ capture' = [capture EXCEPT ![t] = "Some"]
  /\ do_resume' = [do_resume EXCEPT ![t] = FALSE]
  /\ suspendCount' = ResumeThread(thread[t])
  /\ log' = [log EXCEPT ![t] =
              @ \o <<Ev("GetThreadContext", TRUE, "capture"),
                     Ev("ResumeThread", TRUE, "capture")>>]
  /\ pc' = [pc EXCEPT ![t] = "initframe"]
  /\ UNCHANGED lock

\* GetThreadContext succeeded: Some((context, true)); the thread stays
\* suspended and is to be resumed by the caller.
ContextReadSucceeded(t) ==
  /\ context' = [context EXCEPT ![t] = ThreadContext(thread[t], 3)]
  /\ capture' = [capture EXCEPT ![t] = "Some"]
  /\ do_resume' = [do_resume EXCEPT ![t] = TRUE]
  /\ Logged(t, Ev("GetThreadContext", TRUE, "capture"))
  /\ pc' = [pc EXCEPT ![t] = "initframe"]
  /\ UNCHANGED <<suspendCount, lock>>

\* The second arm after SuspendThread: GetThreadContext(thread, &mut context.0)
ReadContext(t) ==
  /\ Runnable(t)
  /\ pc[t] = "getcontext"
  /\ \E ok \in BOOLEAN :
       IF ok THEN ContextReadSucceeded(t) ELSE ContextReadFailed(t)
  /\ UNCHANGED <<arch, hasStackWalkEx, heapLock, cbAllocates,
                 thread, frame, image, strategy,
                 walkPos, delivered, preCount>>

\* ------------------------------------------------------------------------
\* trace, after the capture: init_frame, the walk loop, the resume
\* ------------------------------------------------------------------------

\* let image = init_frame(&mut frame.inner, &context.0)
InitFrame(t) ==
  /\ Runnable(t)
  /\ pc[t] = "initframe"
  /\ frame' = [frame EXCEPT ![t] = init_frame(@, context[t])]
  /\ image' = [image EXCEPT ![t] = init_frame_image]
  /\ pc' = [pc EXCEPT ![t] = "walk"]
  /\ UNCHANGED <<arch, hasStackWalkEx, heapLock, cbAllocates,
                 lock, suspendCount, thread, context,
                 strategy, do_resume, capture, walkPos, log, delivered, preCount>>

\* The loop condition: one call of the selected entry point.  The walker
\* returns TRUE with the next level stored in the frame, or something else
\* (the stack is exhausted, or the walk failed) and the loop ends.
WalkStep(t) ==
  /\ Runnable(t)
  /\ pc[t] = "walk"
  /\ \E ok \in BOOLEAN :
       /\ ok => walkPos[t] < MaxDepth
       /\ Logged(t, Ev(strategy[t], ok, "trace"))
       /\ IF ok
          THEN /\ frame' = [frame EXCEPT ![t] =
                      StackWalkStep(@, ThreadStack(ContextOwner(context[t]))[walkPos[t] + 1])]
               /\ walkPos' = [walkPos EXCEPT ![t] = @ + 1]
               /\ pc' = [pc EXCEPT ![t] = "body"]
          ELSE /\ pc' = [pc EXCEPT ![t] = "teardown"]
               /\ UNCHANGED <<frame, walkPos>>
  /\ UNCHANGED <<arch, hasStackWalkEx, heapLock, cbAllocates,
                 lock, suspendCount, thread, context,
                 image, strategy, do_resume, capture, delivered, preCount>>

\* A callback that allocates (frames.push(..)) takes the heap lock for the
\* allocation and gives it back; it waits while another thread holds it.
CallbackCanRun(t) == cbAllocates[t] => heapLock = "free"

\* A loop that breaks when the callback asks to go on.
LoopContinues_Negated(r) == ~r

\* A loop that ignores the callback's answer.
LoopContinues_Always(r) == TRUE

\* if !cb(&frame) { break; }
LoopContinues(r) == r

\* A loop body that hands the frame to the callback before it stores the
\* module base of the new level.
LoopBody_BaseAfterCallback(t) ==
  /\ Runnable(t)
  /\ pc[t] = "body"
  /\ CallbackCanRun(t)
  /\ \E r \in BOOLEAN :
       LET f == [frame[t] EXCEPT !.base_address = get_module_base(ip(frame[t]))]
       IN /\ frame' = [frame EXCEPT ![t] = f]
          /\ delivered' = [delivered EXCEPT ![t] = Append(@, frame[t])]
          /\ log' = [log EXCEPT ![t] =
                      @ \o <<Ev("cb", r, "trace"),
                             Ev("get_module_base", TRUE, "trace")>>]
          /\ pc' = [pc EXCEPT ![t] = IF LoopContinues(r) THEN "walk" ELSE "teardown"]
  /\ UNCHANGED <<arch, hasStackWalkEx, heapLock, cbAllocates,
                 lock, suspendCount, thread, context,
                 image, strategy, do_resume, capture, walkPos, preCount>>

\* The loop body: base_address = get_module_base(process, frame.ip()), then
\* the callback is invoked with the frame and decides whether to go on.
LoopBody(t) ==
  /\ Runnable(t)
  /\ pc[t] = "body"
  /\ CallbackCanRun(t)
  /\ \E r \in BOOLEAN :
       LET f == [frame[t] EXCEPT !.base_address = get_module_base(ip(frame[t]))]
       IN /\ frame' = [frame EXCEPT ![t] = f]
          /\ delivered' = [delivered EXCEPT ![t] = Append(@, f)]
          /\ log' = [log EXCEPT ![t] =
                      @ \o <<Ev("get_module_base", TRUE, "trace"),
                             Ev("cb", r, "trace")>>]
          /\ pc' = [pc EXCEPT ![t] = IF LoopContinues(r) THEN "walk" ELSE "teardown"]
  /\ UNCHANGED <<arch, hasStackWalkEx, heapLock, cbAllocates,
                 lock, suspendCount, thread, context,
                 image, strategy, do_resume, capture, walkPos, preCount>>

\* Teardown that forgets the resume.
Teardown_NoResume(t) ==
  /\ Runnable(t)
  /\ pc[t] = "teardown"
  /\ Return(t)
  /\ UNCHANGED <<arch, hasStackWalkEx, heapLock, cbAllocates,
                 suspendCount, thread, frame, context, image,
                 strategy, do_resume, capture, walkPos, log, delivered, preCount>>

\* Teardown that resumes whatever do_resume says.
Teardown_AlwaysResume(t) ==
  /\ Runnable(t)
  /\ pc[t] = "teardown"
  /\ suspendCount' = ResumeThread(thread[t])
  /\ Logged(t, Ev("ResumeThread", TRUE, "trace"))
  /\ Return(t)
  /\ UNCHANGED <<arch, hasStackWalkEx, heapLock, cbAllocates,
                 thread, frame, context, image, strategy,
                 do_resume, capture, walkPos, delivered, preCount>>

\* if do_resume { ResumeThread(thread); } and trace returns.
Teardown(t) ==
  /\ Runnable(t)
  /\ pc[t] = "teardown"
  /\ IF do_resume[t]
     THEN /\ suspendCount' = ResumeThread(thread[t])
          /\ Logged(t, Ev("ResumeThread", TRUE, "trace"))
     ELSE UNCHANGED <<suspendCount, log>>
  /\ Return(t)
  /\ UNCHANGED <<arch, hasStackWalkEx, heapLock, cbAllocates,
                 thread, frame, context, image, strategy,
                 do_resume, capture, walkPos, delivered, preCount>>

\* ------------------------------------------------------------------------
\* What a thread does outside trace
\* ------------------------------------------------------------------------

\* A thread running its own code (the worker's loop, main's Vec and
\* Backtrace work) enters the allocator and takes the heap lock.
HeapEnter(u) ==
  /\ Runnable(u)
  /\ pc[u] \in {"idle", "done"}
  /\ heapLock = "free"
  /\ heapLock' = u
  /\ UNCHANGED <<arch, hasStackWalkEx, lock, suspendCount, pc, thread, frame,
                 context, image, strategy, do_resume, capture, walkPos, log,
                 delivered, preCount, cbAllocates>>

\* ... and leaves the allocator again.
HeapLeave(u) ==
  /\ Runnable(u)
  /\ heapLock = u
  /\ heapLock' = "free"
  /\ UNCHANGED <<arch, hasStackWalkEx, lock, suspendCount, pc, thread, frame,
                 context, image, strategy, do_resume, capture, walkPos, log,
                 delivered, preCount, cbAllocates>>

\* One step of thread t inside trace.
TraceStep(t) ==
  \/ InitOk(t)
  \/ InitErr(t)
  \/ SelectStrategy(t)
  \/ CaptureCurrent(t)
  \/ SuspendTarget(t)
  \/ ReadContext(t)
  \/ InitFrame(t)
  \/ WalkStep(t)
  \/ LoopBody(t)
  \/ Teardown(t)

Next ==
  \E t \in Threads :
    \/ \E h \in Handles : CallTrace(t, h)
    \/ TraceStep(t)
    \/ HeapEnter(t)
    \/ HeapLeave(t)

Spec == Init /\ [][Next]_vars

\* The OS schedules every thread that can run: a thread inside trace takes
\* its next step, a thread inside the allocator leaves it, and a thread that
\* waits for the dbghelp lock gets it when it is free again and again.
FairSpec ==
  /\ Spec
  /\ \A t \in Threads :
       /\ WF_vars(TraceStep(t))
       /\ WF_vars(HeapLeave(t))
       /\ SF_vars(InitOk(t) \/ InitErr(t))
\* ========================================================================
\* Properties
\* ========================================================================

\* The step in which trace returns to its caller.
Returns(t) == pc[t] # "done" /\ pc'[t] = "done"

\* trace was called on a thread other than the caller.
TracesAnother(t) == pc[t] # "idle" /\ thread[t] \in Threads \ {t}

\* C1: whenever a trace on a thread other than the caller returns, it has
\* made as many ResumeThread calls as successful SuspendThread calls (none
\* when SuspendThread failed, one when GetThreadContext failed, one when
\* both succeeded), and the target's suspend count is what it was when the
\* trace began.
C1_SuspendResumePaired ==
  [][\A t \in Threads :
       (Returns(t) /\ TracesAnother(t)) =>
         LET l == log'[t] IN
           /\ Count(l, "ResumeThread") = CountOk(l, "SuspendThread", TRUE)
           /\ CountOk(l, "SuspendThread", TRUE) <= 1
           /\ CountOk(l, "SuspendThread", FALSE) > 0 => Count(l, "ResumeThread") = 0
           /\ CountOk(l, "GetThreadContext", FALSE) > 0 => Count(l, "ResumeThread") = 1
           /\ CountOk(l, "GetThreadContext", TRUE) > 0 => Count(l, "ResumeThread") = 1
           /\ suspendCount'[thread[t]] = preCount'[t]]_vars

\* A trace of another thread has suspended it, walked it, been stopped by the
\* callback, resumed it and returned.
C1_Witness ==
  \E t \in Threads :
    /\ pc[t] = "done" /\ TracesAnother(t)
    /\ AtOk(t, "SuspendThread", TRUE) # {}
    /\ AtOk(t, "cb", FALSE) # {}
    /\ Resumes(t) # {}
    /\ suspendCount[thread[t]] = 0

\* C2: trace itself calls ResumeThread at most once, as the last thing it
\* does (after every stack-walk call, lookup and callback), and a trace that
\* got a context has done so on return exactly if do_resume was true.
C2_ResumeOnceAfterLoop ==
  \A t \in Threads :
    LET R == ResumesBy(t, "trace") IN
      /\ Cardinality(R) <= 1
      /\ \A i \in R :
           /\ i = Len(log[t])
           /\ pc[t] = "done"
           /\ capture[t] = "Some" /\ do_resume[t]
           /\ \A j \in Walks(t) \cup Lookups(t) \cup Callbacks(t) : j < i
      /\ (pc[t] = "done" /\ capture[t] = "Some") => (do_resume[t] <=> R # {})
      /\ capture[t] # "Some" => R = {}

\* A trace in the legacy arm whose walk the OS ended has resumed its target.
C2_Witness ==
  \E t \in Threads :
    /\ pc[t] = "done" /\ do_resume[t]
    /\ strategy[t] = "StackWalk64"
    /\ AtOk(t, "StackWalk64", FALSE) # {}
    /\ Callbacks(t) # {}
    /\ ResumesBy(t, "trace") # {}

\* C3: after the callback has returned false there is no further stack-walk
\* call, lookup or callback in that trace; the loop is left, and on return a
\* trace that had suspended its target has resumed it after that callback.
C3_StopIsFinal ==
  \A t \in Threads :
    \A i \in AtOk(t, "cb", FALSE) :
      /\ \A j \in Walks(t) \cup Lookups(t) \cup Callbacks(t) : j <= i
      /\ pc[t] \in {"teardown", "done"}
      /\ (pc[t] = "done" /\ do_resume[t]) =>
            \E k \in ResumesBy(t, "trace") : k > i

\* The callback stopped a walk of a suspended thread at its second frame and
\* the trace has returned.
C3_Witness ==
  \E t \in Threads :
    /\ pc[t] = "done" /\ do_resume[t]
    /\ AtOk(t, "cb", FALSE) # {}
    /\ Len(delivered[t]) = 2
    /\ walkPos[t] < MaxDepth
\* The events of trace t made while it holds its target suspended: those
\* after its successful SuspendThread and before any ResumeThread.
WhileSuspended(t) ==
  {j \in 1..Len(log[t]) :
     /\ \E i \in AtOk(t, "SuspendThread", TRUE) : i < j
     /\ \A k \in Resumes(t) : j < k}

C5_SentinelNullInvalidInPlace ==
  \A t \in Threads :
    (pc[t] # "idle" /\ thread[t] \in {GetCurrentThread, NullHandle, InvalidHandle}) =>
      /\ At(t, "SuspendThread") \cup At(t, "GetThreadContext") \cup Resumes(t) = {}
      /\ ~do_resume[t]
      /\ capture[t] # "None"
      /\ capture[t] = "Some" => At(t, "RtlCaptureContext") # {}

\* C5, amended: for the current-thread sentinel and a null handle the capture
\* is RtlCaptureContext on the caller, no SuspendThread, GetThreadContext or
\* ResumeThread is called and do_resume is false; an invalid handle takes the
\* suspension path instead: SuspendThread is called on it, fails, and the
\* trace returns without a context and without a frame.
C5_SentinelNullInPlace ==
  \A t \in Threads :
    /\ (pc[t] # "idle" /\ thread[t] \in {GetCurrentThread, NullHandle}) =>
         /\ At(t, "SuspendThread") \cup At(t, "GetThreadContext") \cup Resumes(t) = {}
         /\ ~do_resume[t]
         /\ capture[t] # "None"
         /\ capture[t] = "Some" =>
              /\ At(t, "RtlCaptureContext") # {}
              /\ context[t] = ThreadContext(t, 7)
    /\ (pc[t] # "idle" /\ thread[t] = InvalidHandle /\ capture[t] # "pending") =>
         /\ capture[t] = "None"
         /\ AtOk(t, "SuspendThread", FALSE) # {}
         /\ At(t, "RtlCaptureContext") = {}
         /\ delivered[t] = <<>>

\* A trace of a null handle is walking the caller's own stack, unsuspended.
C5_Witness ==
  \E t \in Threads :
    /\ thread[t] = NullHandle
    /\ pc[t] = "body"
    /\ capture[t] = "Some"
    /\ ip(frame[t]) = ThreadStack(t)[2].pc
\* C6 as stated: a trace whose thread identity denotes the calling thread
\* itself, by the sentinel or by a real handle, never calls SuspendThread,
\* so the caller is never suspended by its own trace.
C6_NeverSuspendsCaller ==
  \A t \in Threads :
    (pc[t] # "idle" /\ Denotes(thread[t], t) = t) =>
      /\ At(t, "SuspendThread") = {}
      /\ pc[t] = "getcontext" => suspendCount[t] = 0

\* C7: a trace whose dbghelp::init() failed has returned having done nothing
\* else: no callback, no stack-walk call, no capture, no suspend, no resume.
C7_EngineUnavailableEmpty ==
  \A t \in Threads :
    AtOk(t, "dbghelp::init", FALSE) # {} =>
      /\ pc[t] = "done"
      /\ log[t] = <<Ev("dbghelp::init", FALSE, "trace")>>
      /\ delivered[t] = <<>>
      /\ capture[t] = "pending"
      /\ strategy[t] = "unset"
      /\ lock # t

\* dbghelp::init() failed for a trace of another thread, which was left alone.
C7_Witness ==
  \E t \in Threads :
    /\ AtOk(t, "dbghelp::init", FALSE) # {}
    /\ TracesAnother(t)
    /\ pc[t] = "done"
    /\ suspendCount[thread[t]] = 0

\* C8: once SuspendThread or GetThreadContext has failed, the trace has
\* returned with no stack-walk call, no lookup, no callback and no resume of
\* its own; the only resume is the one the capture made after a failed
\* GetThreadContext.
C8_CaptureFailureEmpty ==
  \A t \in Threads :
    (AtOk(t, "SuspendThread", FALSE) \cup AtOk(t, "GetThreadContext", FALSE) # {}) =>
      /\ pc[t] = "done"
      /\ capture[t] = "None"
      /\ Walks(t) \cup Lookups(t) \cup Callbacks(t) = {}
      /\ delivered[t] = <<>>
      /\ ResumesBy(t, "trace") = {}
      /\ AtOk(t, "SuspendThread", FALSE) # {} => Resumes(t) = {}
      /\ AtOk(t, "GetThreadContext", FALSE) # {} =>
            Cardinality(ResumesBy(t, "capture")) = 1

\* GetThreadContext failed in the legacy arm: the trace returned, the target
\* runs again.
C8_Witness ==
  \E t \in Threads :
    /\ AtOk(t, "GetThreadContext", FALSE) # {}
    /\ strategy[t] = "StackWalk64"
    /\ pc[t] = "done"
    /\ suspendCount[thread[t]] = 0

\* The thread whose stack a trace walks.
WalkedThread(t) == IF thread[t] \in Threads THEN thread[t] ELSE t

\* C9: the frames the callback has received are, in order, the first levels
\* of the walked thread's stack, innermost first, one callback per successful
\* stack-walk call and right after it (nothing skipped, repeated or held
\* back); a walk the callback never stopped has delivered every level the OS
\* walker produced.
C9_DeliveredIsPrefix ==
  \A t \in Threads :
    LET st == ThreadStack(WalkedThread(t))
        d == delivered[t]
    IN /\ Len(d) <= MaxDepth
       /\ \A i \in 1..Len(d) :
            /\ ip(d[i]) = st[i].pc
            /\ sp(d[i]) = st[i].sp
       /\ Len(d) = Cardinality(Callbacks(t))
       /\ Cardinality(WalksOk(t, TRUE)) = Len(d) + (IF pc[t] = "body" THEN 1 ELSE 0)
       /\ \A j \in Callbacks(t) :
            /\ j >= 3
            /\ j - 2 \in WalksOk(t, TRUE)
       /\ (pc[t] = "done" /\ AtOk(t, "cb", FALSE) = {}) => Len(d) = walkPos[t]

\* The callback always returned true and received the whole stack of another
\* thread, outermost frame included.
C9_Witness ==
  \E t \in Threads :
    /\ pc[t] = "done" /\ TracesAnother(t)
    /\ AtOk(t, "cb", FALSE) = {}
    /\ Len(delivered[t]) = MaxDepth
    /\ ip(delivered[t][MaxDepth]) = ThreadStack(thread[t])[MaxDepth].pc

\* C10: the loop has ended exactly if the callback has returned false or a
\* stack-walk call has failed, never both; there is one callback per
\* successful stack-walk call, so as many stack-walk calls as callbacks when
\* the callback stopped the walk and one more when the OS ended it.
C10_LoopEndsOnOneTrigger ==
  \A t \in Threads :
    LET W == Cardinality(Walks(t))
        Wok == Cardinality(WalksOk(t, TRUE))
        Wfail == Cardinality(WalksOk(t, FALSE))
        C == Cardinality(Callbacks(t))
        Cstop == Cardinality(AtOk(t, "cb", FALSE))
        ended == pc[t] = "teardown" \/ (pc[t] = "done" /\ capture[t] = "Some")
    IN /\ Wfail + Cstop <= 1
       /\ ended <=> (Wfail + Cstop = 1)
       /\ C = Wok - (IF pc[t] = "body" THEN 1 ELSE 0)
       /\ Cstop = 1 => W = C
       /\ Wfail = 1 => W = C + 1

\* The OS ended a walk after two frames, both delivered.
C10_Witness ==
  \E t \in Threads :
    /\ pc[t] = "done"
    /\ Cardinality(WalksOk(t, FALSE)) = 1
    /\ Cardinality(Walks(t)) = 3
    /\ Cardinality(Callbacks(t)) = 2

\* The Frame variant each strategy walks with.
VariantOf(s) == IF s = "StackWalkEx" THEN "New" ELSE "Old"

\* C11: once a trace has chosen its strategy (it does so once), its frame
\* carries the variant of that strategy, New for StackWalkEx and Old for
\* StackWalk64, at every later point of the call, and every frame the
\* callback has received carries that same variant.
C11_VariantFixedPerCall ==
  \A t \in Threads :
    /\ Count(log[t], "select") <= 1
    /\ strategy[t] # "unset" =>
         /\ Count(log[t], "select") = 1
         /\ frame[t].stack_frame.tag = VariantOf(strategy[t])
         /\ \A i \in 1..Len(delivered[t]) :
              delivered[t][i].stack_frame.tag = VariantOf(strategy[t])
    /\ strategy[t] = "unset" => delivered[t] = <<>>

\* Three New frames have been delivered in one trace.
C11_Witness ==
  \E t \in Threads :
    /\ strategy[t] = "StackWalkEx"
    /\ Len(delivered[t]) = 3
    /\ \A i \in 1..3 : delivered[t][i].stack_frame.tag = "New"

\* The frame of the other variant holding the same addresses and base.
OtherVariant(f) ==
  [f EXCEPT !.stack_frame.tag = IF @ = "New" THEN "Old" ELSE "New",
            !.stack_frame.StackFrameSize =
               IF f.stack_frame.tag = "New" THEN "absent" ELSE "size_of_STACKFRAME_EX"]

\* The frames a trace holds or has delivered, each in both variants.
FramesBothWays(t) ==
  LET held == IF frame[t].stack_frame.tag \in {"New", "Old"}
              THEN {frame[t]} ELSE {}
      got == {delivered[t][i] : i \in 1..Len(delivered[t])}
  IN (held \cup got) \cup {OtherVariant(f) : f \in held \cup got}

\* C14: for a frame of either variant, ip() is the AddrPC offset, sp() is the
\* AddrStack offset, symbol_address() is ip(), and module_base_address() is
\* Some(base_address); a New and an Old frame with the same offsets and base
\* give the same four results.
C14_AccessorsUniform ==
  \A t \in Threads :
    \A f \in FramesBothWays(t) :
      /\ ip(f) = f.stack_frame.AddrPC.Offset
      /\ sp(f) = f.stack_frame.AddrStack.Offset
      /\ symbol_address(f) = ip(f)
      /\ module_base_address(f) = [some |-> TRUE, value |-> f.base_address]
      /\ ip(OtherVariant(f)) = ip(f)
      /\ sp(OtherVariant(f)) = sp(f)
      /\ symbol_address(OtherVariant(f)) = symbol_address(f)
      /\ module_base_address(OtherVariant(f)) = module_base_address(f)

\* A trace holds a walked frame whose program counter, stack pointer, frame
\* pointer and base address are four different non-zero values.
C14_Witness ==
  \E t \in Threads :
    LET f == frame[t] IN
      /\ f.stack_frame.tag = "Old"
      /\ f.base_address # 0
      /\ Cardinality({0, ip(f), sp(f), f.stack_frame.AddrFrame.Offset,
                       f.base_address}) = 5

\* C15: the strategy is chosen once per trace; every stack-walk call of a
\* trace is StackWalkEx, made with a New frame, when dbghelp has StackWalkEx,
\* and StackWalk64, made with an Old frame, when it has not; no trace calls
\* both.
C15_OneEntryPoint ==
  \A t \in Threads :
    LET want == IF hasStackWalkEx THEN "StackWalkEx" ELSE "StackWalk64" IN
      /\ Count(log[t], "select") <= 1
      /\ \A j \in Walks(t) :
           /\ log[t][j].op = want
           /\ \E k \in At(t, "select") : k < j
      /\ At(t, "StackWalkEx") = {} \/ At(t, "StackWalk64") = {}
      /\ pc[t] \in {"walk", "body"} =>
           /\ strategy[t] = want
           /\ frame[t].stack_frame.tag = (IF hasStackWalkEx THEN "New" ELSE "Old")

\* A legacy trace has made three StackWalk64 calls and is about to make
\* another.
C15_Witness ==
  \E t \in Threads :
    /\ ~hasStackWalkEx
    /\ pc[t] = "walk"
    /\ Cardinality(At(t, "StackWalk64")) = 3

\* C16: every frame the callback has received carries the module base of
\* its own program counter, looked up after the stack-walk call that produced
\* the level and before the callback: not the initial zero, and not the base
\* of the level before when that level lies in another module.
C16_BaseRecomputed ==
  \A t \in Threads :
    LET d == delivered[t]
        st == ThreadStack(WalkedThread(t))
    IN /\ \A i \in 1..Len(d) :
            /\ d[i].base_address = get_module_base(st[i].pc)
            /\ d[i].base_address = get_module_base(ip(d[i]))
            /\ d[i].base_address # 0
            /\ (i > 1 /\ get_module_base(st[i].pc) # get_module_base(st[i - 1].pc))
                 => d[i].base_address # d[i - 1].base_address
       /\ \A j \in Callbacks(t) :
            /\ j - 1 \in Lookups(t)
            /\ j - 2 \in WalksOk(t, TRUE)

\* The callback has received two frames of two different modules.
C16_Witness ==
  \E t \in Threads :
    \E i \in 2..Len(delivered[t]) :
      /\ delivered[t][i].base_address # delivered[t][i - 1].base_address
      /\ delivered[t][i].base_address = get_module_base(ip(delivered[t][i]))

\* The frame trace built for its strategy, before init_frame.
BuiltFrame(t) == IF strategy[t] = "StackWalkEx" THEN NewFrame ELSE OldFrame

\* The machine type of each architecture.
MachineConstant ==
  [a \in Archs |->
     CASE a = "x86_64" -> "IMAGE_FILE_MACHINE_AMD64"
       [] a = "x86" -> "IMAGE_FILE_MACHINE_I386"
       [] a = "aarch64" -> "IMAGE_FILE_MACHINE_ARM64"
       [] a = "arm" -> "IMAGE_FILE_MACHINE_ARMNT"]

\* C17: right after init_frame the frame's AddrPC, AddrStack and AddrFrame
\* hold the instruction pointer, stack pointer and frame pointer of the
\* captured thread, all three in flat mode, and the frame is otherwise the
\* frame trace built (same variant, StackFrameSize and zero base_address);
\* image is the machine type of the architecture and stays so for every
\* stack-walk call.
C17_InitFrameSeeds ==
  \A t \in Threads :
    /\ (pc[t] = "walk" /\ walkPos[t] = 0) =>
         LET top == ThreadStack(WalkedThread(t))[1] IN
           frame[t] =
             [BuiltFrame(t) EXCEPT
                !.stack_frame.AddrPC = [Offset |-> top.pc, Mode |-> "AddrModeFlat"],
                !.stack_frame.AddrStack = [Offset |-> top.sp, Mode |-> "AddrModeFlat"],
                !.stack_frame.AddrFrame = [Offset |-> top.fp, Mode |-> "AddrModeFlat"]]
    /\ pc[t] \in {"walk", "body", "teardown"} =>
         /\ image[t] = MachineConstant[arch]
         /\ \A a \in {"AddrPC", "AddrStack", "AddrFrame"} :
              frame[t].stack_frame[a].Mode = "AddrModeFlat"
    /\ Walks(t) # {} => image[t] = MachineConstant[arch]

\* On ARM a New frame has just been seeded from the context of another
\* thread.
C17_Witness ==
  \E t \in Threads :
    /\ arch = "arm"
    /\ pc[t] = "walk" /\ walkPos[t] = 0
    /\ TracesAnother(t)
    /\ frame[t].stack_frame.tag = "New"
    /\ frame[t].stack_frame.AddrFrame.Offset = context[t]["R11"]
    /\ image[t] = "IMAGE_FILE_MACHINE_ARMNT"

\* C18: every SuspendThread call of a trace comes after its successful
\* dbghelp::init() and after its strategy selection, and neither of the two
\* happens after it: while the trace holds its target suspended the
\* strategy is already chosen and the engine initialized.
C18_InitAndSelectBeforeSuspend ==
  \A t \in Threads :
    /\ \A i \in At(t, "SuspendThread") :
         /\ \E j \in AtOk(t, "dbghelp::init", TRUE) : j < i
         /\ \E k \in At(t, "select") : k < i
         /\ \A j \in At(t, "dbghelp::init") \cup At(t, "select") : j < i
    /\ (AtOk(t, "SuspendThread", TRUE) # {} /\ Resumes(t) = {}) =>
         /\ strategy[t] # "unset"
         /\ frame[t].stack_frame.tag # "unset"

\* A trace has just suspended another thread, its strategy chosen.
C18_Witness ==
  \E t \in Threads :
    /\ pc[t] = "getcontext"
    /\ TracesAnother(t)
    /\ suspendCount[thread[t]] = 1
    /\ strategy[t] # "unset"

\* A trace between its successful dbghelp::init() and its return.
InsideTrace(t) ==
  pc[t] \in {"select", "capture", "getcontext", "initframe", "walk", "body",
             "teardown"}

\* C12: a trace holds the dbghelp lock from its successful dbghelp::init()
\* until it returns, final resume included, and not after; so whenever a
\* thread makes an OS call or a callback of its trace (SuspendThread,
\* GetThreadContext, a stack-walk call, ResumeThread), no other thread is
\* between the init and the return of a trace of its own.
C12_TracesSerialized ==
  [][\A t \in Threads :
       /\ InsideTrace(t) => lock = t
       /\ lock = t => InsideTrace(t)
       /\ (Len(log'[t]) > Len(log[t])) =>
            /\ \A u \in Threads \ {t} : ~InsideTrace(u)
            /\ InsideTrace(t) \/ (pc[t] = "init" /\ lock = "free")
            /\ InsideTrace(t)' => lock' = t]_vars

\* While one thread walks the stack of the other, the other has called trace
\* too and waits in dbghelp::init().
C12_Witness ==
  \E t \in Threads : \E u \in Threads \ {t} :
    /\ pc[t] = "body" /\ thread[t] = u /\ lock = t
    /\ pc[u] = "init" /\ thread[u] = t

\* C13 as stated: a trace of another thread is never blocked: as long as it
\* has not returned, its thread can take the next step of trace, whatever lock
\* the suspended target holds, so it runs on to its return.
C13_TraceNeverBlocked ==
  \A t \in Threads :
    (TracesAnother(t) /\ InsideTrace(t) /\ Runnable(t)) => ENABLED TraceStep(t)

\* Thread u is held suspended by the trace thread t is running.
SuspendedBy(u, t) ==
  /\ InsideTrace(t)
  /\ thread[t] = u
  /\ AtOk(t, "SuspendThread", TRUE) # {}
  /\ Resumes(t) = {}

\* Threads t and u are both in a call of trace on each other.
TraceEachOther(t, u) ==
  /\ t # u
  /\ pc[t] \notin {"idle", "done"} /\ thread[t] = u
  /\ pc[u] \notin {"idle", "done"} /\ thread[u] = t

\* C19 as stated: two threads that trace each other at the same time are
\* never both held suspended by the other's trace, and both calls return.
C19_MutualTracesReturn ==
  /\ [](\A t \in Threads : \A u \in Threads \ {t} :
          ~(SuspendedBy(u, t) /\ SuspendedBy(t, u)))
  /\ \A t \in Threads : \A u \in Threads \ {t} :
       TraceEachOther(t, u) ~> (pc[t] = "done")
====
